---- MODULE Spec2Model ----
(***************************************************************************)
(* A state-machine model of the ReusableChatbot widget controller          *)
(* (src/chatbot.js): response resolution, the message lifecycle, and the   *)
(* persistence of the conversation history in localStorage.                *)
(*                                                                         *)
(* Strings are sequences of one-character strings, so that toLowerCase,    *)
(* trim, includes and replace are computed as the JavaScript built-ins     *)
(* compute them.                                                           *)
(***************************************************************************)
EXTENDS Integers, Sequences, FiniteSets, TLC

VARIABLES
    phase,           \* "unloaded": no instance; "ready": constructor returned; "failed": constructor
                     \* threw; "destroyed": destroy() was called
    dom,             \* ids of the elements present in the document
    listeners,       \* names of the event listeners attached by bindEvents
    config,          \* this.config, without the fields nothing reads after init
    isOpen,          \* this.isOpen
    isTyping,        \* this.isTyping
    messageHistory,  \* this.messageHistory: [t |-> type of the value, list |-> its elements when an array]
    rendered,        \* children of this.elements.messages
    inputValue,      \* this.elements.input.value
    storage,         \* localStorage slot 'reusable_chatbot_history'; the clock is kept relative,
                     \* a stored timestamp being held as its age in days
    sends,           \* sendMessage invocations suspended at `await fetch`, each with its request
    timers,          \* setTimeout callbacks not yet run
    log,             \* the events the handler that ran last handed to trackEvent
    nSent,           \* number of non-empty sends so far
    loaded,          \* history variable: this.messageHistory as loadMessageHistory left it
    savedFrom,       \* history variable: the in-memory history the snapshot was written from
    probe            \* a getBotResponse call on its own: [cfg, message, net, out]

vars == <<phase, dom, listeners, config, isOpen, isTyping, messageHistory, rendered,
          inputValue, storage, sends, timers, log, nSent, loaded, savedFrom, probe>>

widgetVars == <<phase, dom, listeners, config, isOpen, isTyping, messageHistory, rendered,
                inputValue, storage, sends, timers, log, nSent, loaded, savedFrom>>

(***************************************************************************)
(* Bounds of the model.                                                    *)
(***************************************************************************)
\* longest text handed to getBotResponse on its own
MaxMsgLen == 3
\* non-empty sends followed in one behaviour
MaxSends == 1
\* non-empty sends of one instance in SpecSends, where they overlap
MaxOverlap == 2
\* longest content of the input field
MaxInputLen == 1
\* days by which the clock advances at a time
TickDays == 6

(***************************************************************************)
(* Constants of the program.                                               *)
(***************************************************************************)
\* messages kept by saveMessageHistory
SnapshotLimit == 50
\* history entries sent to the endpoint
RequestHistoryLimit == 10
\* age in days from which a snapshot is no longer loaded
MaxAgeDays == 7

(***************************************************************************)
(* Strings.                                                                *)
(***************************************************************************)
Min(S) == CHOOSE x \in S : \A y \in S : x <= y

\* one character of String.prototype.toLowerCase (the letters the model uses)
LowerChar(c) ==
    CASE c = "H" -> "h"
      [] c = "I" -> "i"
      [] c = "D" -> "d"
      [] c = "R" -> "r"
      [] c = "W" -> "w"
      [] OTHER -> c

\* String.prototype.toLowerCase
toLowerCase(s) == [i \in 1..Len(s) |-> LowerChar(s[i])]

\* String.prototype.includes
includes(s, k) ==
    \E i \in 0..(Len(s) - Len(k)) : SubSeq(s, i + 1, i + Len(k)) = k

\* String.prototype.indexOf: the 0-based position of the first occurrence, or -1
indexOf(s, k) ==
    IF includes(s, k)
    THEN Min({i \in 0..(Len(s) - Len(k)) : SubSeq(s, i + 1, i + Len(k)) = k})
    ELSE -1

\* String.prototype.trim (the only white space of the model is the blank)
RECURSIVE trimStart(_)
trimStart(s) == IF s # <<>> /\ Head(s) = " " THEN trimStart(Tail(s)) ELSE s

RECURSIVE trimEnd(_)
trimEnd(s) ==
    IF s # <<>> /\ s[Len(s)] = " " THEN trimEnd(SubSeq(s, 1, Len(s) - 1)) ELSE s

trim(s) == trimEnd(trimStart(s))

\* GetSubstitution of String.prototype.replace for a string pattern (no captures):
\* $$ is a dollar, $& the matched text, $` the text before it, $' the text after
\* it; any other $ stands for itself.
RECURSIVE GetSubstitution(_, _, _, _)
GetSubstitution(repl, matched, before, after) ==
    IF repl = <<>> THEN <<>>
    ELSE IF Head(repl) = "$" /\ Len(repl) >= 2 /\ repl[2] \in {"$", "&", "`", "'"}
    THEN (CASE repl[2] = "$" -> <<"$">>
            [] repl[2] = "&" -> matched
            [] repl[2] = "`" -> before
            [] repl[2] = "'" -> after)
         \o GetSubstitution(SubSeq(repl, 3, Len(repl)), matched, before, after)
    ELSE <<Head(repl)>> \o GetSubstitution(Tail(repl), matched, before, after)

\* String.prototype.replace(pattern, replacement) with a string pattern: the first
\* occurrence only, the replacement expanded by GetSubstitution
replace(s, pattern, replacement) ==
    LET p == indexOf(s, pattern) IN
    IF p < 0 THEN s
    ELSE LET before == SubSeq(s, 1, p)
             after  == SubSeq(s, p + Len(pattern) + 1, Len(s))
         IN before \o GetSubstitution(replacement, pattern, before, after) \o after

\* the same with the replacement taken literally
replaceLiteral(s, pattern, replacement) ==
    LET p == indexOf(s, pattern) IN
    IF p < 0 THEN s
    ELSE SubSeq(s, 1, p) \o replacement \o SubSeq(s, p + Len(pattern) + 1, Len(s))

(***************************************************************************)
(* JavaScript values, as far as getBotResponse tells them apart.           *)
(***************************************************************************)
Str(s)    == [v |-> "string", text |-> s]
Undefined == [v |-> "undefined", text |-> <<>>]
Null      == [v |-> "null", text |-> <<>>]
Num(s)    == [v |-> "number", text |-> s]

\* ToBoolean
Truthy(x) ==
    \/ x.v = "string" /\ x.text # <<>>
    \/ x.v = "number" /\ x.text # <<"0">>
    \/ x.v = "object"

(***************************************************************************)
(* Response resolution.                                                    *)
(***************************************************************************)
DefaultKey  == <<"d", "e", "f", "a", "u", "l", "t">>
Placeholder == <<"{", "m", "e", "s", "s", "a", "g", "e", "}">>
SorryText   == <<"S", "o", "r", "r", "y">>

Digits == {"0", "1", "2", "3", "4", "5", "6", "7", "8", "9"}

\* an own property key that is an array index (a canonical numeric string):
\* OrdinaryOwnPropertyKeys lists these first, in ascending numeric order
IsIndexKey(k) ==
    /\ k # <<>>
    /\ \A i \in 1..Len(k) : k[i] \in Digits
    /\ (Len(k) = 1 \/ k[1] # "0")

DigitValue(c) ==
    CASE c = "0" -> 0 [] c = "1" -> 1 [] c = "2" -> 2 [] c = "3" -> 3 [] c = "4" -> 4
      [] c = "5" -> 5 [] c = "6" -> 6 [] c = "7" -> 7 [] c = "8" -> 8 [] OTHER -> 9

RECURSIVE IndexValue(_)
IndexValue(k) ==
    IF k = <<>> THEN 0
    ELSE 10 * IndexValue(SubSeq(k, 1, Len(k) - 1)) + DigitValue(k[Len(k)])

RECURSIVE SelectIdx(_, _, _)
\* the positions i of seq, ascending, with keep[i]
SelectIdx(n, keep, i) ==
    IF i > n THEN <<>>
    ELSE (IF keep[i] THEN <<i>> ELSE <<>>) \o SelectIdx(n, keep, i + 1)

RECURSIVE SortByIndexValue(_, _)
\* the positions in S ordered by the numeric value of their keys
SortByIndexValue(responses, S) ==
    IF S = {} THEN <<>>
    ELSE LET m == CHOOSE i \in S :
                    \A j \in S : IndexValue(responses[i].key) <= IndexValue(responses[j].key)
         IN <<m>> \o SortByIndexValue(responses, S \ {m})

\* Object.entries(this.config.responses); `responses` lists the properties in the
\* order the object literal creates them
entries(responses) ==
    LET n     == Len(responses)
        idx   == {i \in 1..n : IsIndexKey(responses[i].key)}
        order == SortByIndexValue(responses, idx)
                   \o SelectIdx(n, [i \in 1..n |-> i \notin idx], 1)
    IN [i \in 1..n |-> responses[order[i]]]

\* this.config.responses.default
defaultOf(responses) ==
    IF \E i \in 1..Len(responses) : responses[i].key = DefaultKey
    THEN Str(responses[CHOOSE i \in 1..Len(responses) : responses[i].key = DefaultKey].reply)
    ELSE Undefined

Return(x) == [kind |-> "return", val |-> x]
Throw     == [kind |-> "throw", val |-> Undefined]

\* the test of the keyword scan of getBotResponse
keywordMatch(lowerMessage, key) == key # DefaultKey /\ includes(lowerMessage, key)

\* the keyword scan and the default response of getBotResponse
localPolicy(responses, message) ==
    LET lowerMessage == toLowerCase(message)
        ents == entries(responses)
        hits == {i \in 1..Len(ents) : keywordMatch(lowerMessage, ents[i].key)}
        dflt == defaultOf(responses)
    IN IF hits # {} THEN Return(Str(ents[Min(hits)].reply))
       ELSE IF dflt.v = "undefined" THEN Throw
       ELSE Return(Str(replace(dflt.text, Placeholder, message)))

\* response.ok is not looked at
apiAnswersIgnoringStatus(net) ==
    net.outcome = "response" /\ net.body.parse \in {"object", "primitive"}

\* whether the try block of getBotResponse returns: the fetch resolved with an ok
\* status and a body that JSON-parses to a value with readable properties
apiAnswers(net) ==
    net.outcome = "response" /\ net.ok /\ net.body.parse \in {"object", "primitive"}

\* data.message || data.response, without the closing literal
apiAnswerNoFallback(body) ==
    IF Truthy(body.message) THEN body.message ELSE body.response

\* what the try block returns then
apiAnswer(body) ==
    IF Truthy(body.message) THEN body.message
    ELSE IF Truthy(body.response) THEN body.response
    ELSE Str(SorryText)

\* async getBotResponse(message), given what the network does to its request
getBotResponse(cfg, message, net) ==
    IF cfg.apiEndpoint /\ apiAnswers(net)
    THEN Return(apiAnswer(net.body))
    ELSE localPolicy(cfg.responses, message)

(***************************************************************************)
(* getBotResponse on its own: the inputs are drawn in InitResolve.         *)
(***************************************************************************)
Alphabet == {"h", "i", "H", "2", "$", "&"}

RECURSIVE TextsUpTo(_)
\* every text over Alphabet of at most n characters
TextsUpTo(n) ==
    IF n = 0 THEN {<<>>}
    ELSE LET shorter == TextsUpTo(n - 1)
         IN shorter \cup {Append(t, c) : t \in {u \in shorter : Len(u) = n - 1}, c \in Alphabet}

Entry(k, r) == [key |-> k, reply |-> r]

DefaultTemplate == <<"D", ":">> \o Placeholder \o <<"!">>

\* response maps, each in the order its object literal is written
ProbeResponses ==
    { << Entry(<<"h", "i">>, <<"R", "1">>), Entry(<<"h">>, <<"R", "2">>),
         Entry(DefaultKey, DefaultTemplate) >>,
      << Entry(DefaultKey, DefaultTemplate), Entry(<<"h">>, <<"R", "2">>),
         Entry(<<"h", "i">>, <<"R", "1">>) >>,
      << Entry(<<"H", "i">>, <<"R", "1">>), Entry(<<"h">>, <<"R", "2">>),
         Entry(DefaultKey, DefaultTemplate) >>,
      << Entry(<<"h">>, <<"R", "2">>), Entry(<<"2">>, <<"R", "3">>),
         Entry(DefaultKey, <<"D">>) >>,
      << Entry(<<"&">>, <<"R", "4">>), Entry(DefaultKey, Placeholder \o <<"+">> \o Placeholder) >> }

NetReject  == [outcome |-> "reject", ok |-> FALSE,
               body |-> [parse |-> "error", message |-> Undefined, response |-> Undefined]]
NetResponse(ok, parse, m, r) ==
    [outcome |-> "response", ok |-> ok, body |-> [parse |-> parse, message |-> m, response |-> r]]

FieldValues == {Undefined, Null, Str(<<>>), Str(<<"M">>), Num(<<"0">>), Num(<<"7">>)}

\* what the network can do to one request
ProbeNets ==
    {NetReject}
    \cup {NetResponse(FALSE, "object", Str(<<"M">>), Undefined)}
    \cup {NetResponse(TRUE, p, Undefined, Undefined) : p \in {"error", "null", "primitive"}}
    \cup {NetResponse(TRUE, "object", m, r) : m \in FieldValues, r \in {Undefined, Str(<<"N">>)}}

NoProbe == [cfg |-> [apiEndpoint |-> FALSE, responses |-> <<>>], message |-> <<>>,
            net |-> NetReject, out |-> [kind |-> "pending", val |-> Undefined]]

ProbesWith(e, nets) ==
    {[cfg |-> [apiEndpoint |-> e, responses |-> r], message |-> m, net |-> n,
      out |-> [kind |-> "pending", val |-> Undefined]] :
        r \in ProbeResponses, m \in TextsUpTo(MaxMsgLen), n \in nets}

\* without an endpoint no request is made, and the network plays no part
Probes == ProbesWith(TRUE, ProbeNets) \cup ProbesWith(FALSE, {NetReject})

\* the call settles
resolveProbe ==
    /\ probe.out.kind = "pending"
    /\ probe' = [probe EXCEPT !.out = getBotResponse(probe.cfg, probe.message, probe.net)]
    /\ UNCHANGED widgetVars

(***************************************************************************)
(* The widget: configuration, document, messages.                          *)
(***************************************************************************)
WelcomeMessage == <<"W">>
TroubleText    == <<"T", "r", "o", "u", "b", "l", "e">>
Emoji          == "E"

\* the `responses` the page configures
PageResponses ==
    << Entry(<<"h", "i">>, <<"R", "1">>), Entry(DefaultKey, DefaultTemplate) >>

\* the constructor's merge of the defaults with the caller's options
mergeConfig(options) ==
    [welcomeMessage |-> WelcomeMessage, apiEndpoint |-> options.apiEndpoint,
     responses |-> PageResponses]

Options == [apiEndpoint : BOOLEAN, autoOpen : BOOLEAN]

\* the partial configurations handed to updateConfig
ConfigUpdates == {"endpointOn", "endpointOff"}

AllElements == {"chatbot", "toggle", "container", "messages", "input", "sendBtn",
                "refreshBtn", "closeBtn", "typingIndicator", "emojiBtn"}

\* the addEventListener calls of bindEvents, in order; those on `document` need no element
BindOrder ==
    << [el |-> "toggle",     name |-> "toggle.click"],
       [el |-> "sendBtn",    name |-> "sendBtn.click"],
       [el |-> "input",      name |-> "input.keypress"],
       [el |-> "input",      name |-> "input.input.updateSendButton"],
       [el |-> "refreshBtn", name |-> "refreshBtn.click"],
       [el |-> "closeBtn",   name |-> "closeBtn.click"],
       [el |-> "emojiBtn",   name |-> "emojiBtn.click"],
       [el |-> "input",      name |-> "input.input.autoResizeInput"],
       [el |-> "document",   name |-> "document.keydown"],
       [el |-> "document",   name |-> "document.click"] >>

\* bindElements then bindEvents: addEventListener on a missing element throws, the
\* listeners attached before it stay attached
bindEvents(d) ==
    LET have(i) == BindOrder[i].el = "document" \/ BindOrder[i].el \in d
        bad == {i \in 1..Len(BindOrder) : ~have(i)}
        upto == IF bad = {} THEN Len(BindOrder) ELSE Min(bad) - 1
    IN [threw |-> bad # {}, listeners |-> {BindOrder[i].name : i \in 1..upto}]

\* a message object without its id; of its timestamp the model keeps the form, a Date
\* in memory and an ISO string once serialized
Message(sender, content, form) ==
    [et |-> "message", sender |-> sender, content |-> content, timestamp |-> form]

\* array elements that are no message objects: null, and a number
JunkNull  == [et |-> "null", sender |-> "", content |-> <<>>, timestamp |-> "iso"]
JunkOther == [et |-> "other", sender |-> "", content |-> <<>>, timestamp |-> "iso"]

Array(list)  == [t |-> "array", list |-> list]
NonArray(t)  == [t |-> t, list |-> <<>>]
EmptyHistory == Array(<<>>)

\* the {sender, content} pairs of a list of messages
pairs(list) == [i \in 1..Len(list) |-> [sender |-> list[i].sender, content |-> list[i].content]]

\* Array.prototype.slice(-n)
sliceLast(list, n) ==
    IF Len(list) <= n THEN list ELSE SubSeq(list, Len(list) - n + 1, Len(list))

\* Array.prototype.slice(0, n)
sliceFirst(list, n) ==
    IF Len(list) <= n THEN list ELSE SubSeq(list, 1, n)

\* slice(0, 50) in place of slice(-50)
keptMessagesFirst(list) == sliceFirst(list, SnapshotLimit)

\* the messages saveMessageHistory keeps
keptMessages(list) == sliceLast(list, SnapshotLimit)

\* JSON.stringify of one element of the history: a Date becomes its ISO string
toJSON(m) == IF m.et = "message" THEN [m EXCEPT !.timestamp = "iso"] ELSE m

(***************************************************************************)
(* The storage slot: absent, or a string, given by what JSON.parse makes   *)
(* of it.                                                                  *)
(***************************************************************************)
NoTimestamp == [t |-> "undefined", age |-> 0]
BadTimestamp == [t |-> "invalid", age |-> 0]
\* an ISO timestamp, by the days since it was written
Iso(age) == [t |-> "iso", age |-> age]

Absent      == [kind |-> "absent", messages |-> NonArray("undefined"), timestamp |-> NoTimestamp]
Unparseable == [kind |-> "unparseable", messages |-> NonArray("undefined"), timestamp |-> NoTimestamp]
JsonNull    == [kind |-> "null", messages |-> NonArray("undefined"), timestamp |-> NoTimestamp]
Snapshot(messages, timestamp) ==
    [kind |-> "object", messages |-> messages, timestamp |-> timestamp]

\* the string saveMessageHistory writes
historyData(history) ==
    Snapshot(Array([i \in 1..Len(keptMessages(history.list)) |->
                        toJSON(keptMessages(history.list)[i])]),
             Iso(0))

\* saveMessageHistory: setItem succeeds or throws, and a throw is caught
saveMessageHistory(history, store, writeOk) ==
    IF writeOk THEN historyData(history) ELSE store

\* createMessageElement: the sender and the text of the element
createMessageElement(m) ==
    IF m.et = "message" THEN [sender |-> m.sender, content |-> m.content]
    ELSE [sender |-> "undefined", content |-> <<>>]

RECURSIVE appendElements(_)
\* the forEach of renderMessageHistory: createMessageElement throws on null, and
\* the elements appended before it stay
appendElements(list) ==
    IF list = <<>> \/ Head(list).et = "null" THEN <<>>
    ELSE <<createMessageElement(Head(list))>> \o appendElements(Tail(list))

\* renderMessageHistory: the children of the messages element afterwards
renderMessageHistory(history) ==
    IF history.t = "array" THEN appendElements(history.list) ELSE <<>>

\* the age of the snapshot is not looked at
freshAlways(timestamp) == timestamp.t = "iso"

\* daysDiff < 7, with new Date(historyData.timestamp) invalid giving NaN
fresh(timestamp) == timestamp.t = "iso" /\ timestamp.age < MaxAgeDays

\* ToBoolean(historyData.messages)
truthyMessages(messages) == messages.t \in {"array", "string", "number", "object"}

\* loadMessageHistory: the history and the rendered list it leaves, starting from
\* the constructor's empty ones
loadMessageHistory(store, readOk) ==
    IF readOk /\ store.kind = "object" /\ fresh(store.timestamp)
       /\ truthyMessages(store.messages)
    THEN [history |-> store.messages, rendered |-> renderMessageHistory(store.messages)]
    ELSE [history |-> EmptyHistory, rendered |-> <<>>]

\* addMessage with the save before the push
addMessageSaveFirst(history, rend, store, sender, content, writeOk) ==
    IF history.t # "array"
    THEN [threw |-> TRUE, history |-> history, storage |-> store, rendered |-> rend,
          saved |-> FALSE]
    ELSE [threw |-> FALSE,
          history |-> Array(Append(history.list, Message(sender, content, "Date"))),
          storage |-> IF writeOk
                      THEN Snapshot(Array([i \in 1..Len(sliceLast(history.list, SnapshotLimit)) |->
                                              [sliceLast(history.list, SnapshotLimit)[i]
                                                  EXCEPT !.timestamp = "iso"]]), Iso(0))
                      ELSE store,
          rendered |-> Append(rend, [sender |-> sender, content |-> content]),
          saved |-> writeOk]

\* addMessage with unshift in place of push
addMessagePrepends(history, rend, store, sender, content, writeOk) ==
    IF history.t # "array"
    THEN [threw |-> TRUE, history |-> history, storage |-> store, rendered |-> rend,
          saved |-> FALSE]
    ELSE LET h == Array(<<Message(sender, content, "Date")>> \o history.list)
         IN [threw |-> FALSE, history |-> h,
             storage |-> saveMessageHistory(h, store, writeOk),
             rendered |-> Append(rend, createMessageElement(Message(sender, content, "Date"))),
             saved |-> writeOk]

\* addMessage with a save that lets the error of setItem through
addMessageWriteThrows(history, rend, store, sender, content, writeOk) ==
    IF history.t # "array"
    THEN [threw |-> TRUE, history |-> history, storage |-> store, rendered |-> rend,
          saved |-> FALSE]
    ELSE LET h == Array(Append(history.list, Message(sender, content, "Date")))
         IN IF writeOk
            THEN [threw |-> FALSE, history |-> h,
                  storage |-> saveMessageHistory(h, store, TRUE),
                  rendered |-> Append(rend, createMessageElement(Message(sender, content, "Date"))),
                  saved |-> TRUE]
            ELSE [threw |-> TRUE, history |-> h, storage |-> store, rendered |-> rend,
                  saved |-> FALSE]

\* addMessage(sender, content): push (which throws when the history is no array),
\* save, append the element
addMessage(history, rend, store, sender, content, writeOk) ==
    IF history.t # "array"
    THEN [threw |-> TRUE, history |-> history, storage |-> store, rendered |-> rend,
          saved |-> FALSE]
    ELSE LET h == Array(Append(history.list, Message(sender, content, "Date")))
         IN [threw |-> FALSE, history |-> h,
             storage |-> saveMessageHistory(h, store, writeOk),
             rendered |-> Append(rend, createMessageElement(Message(sender, content, "Date"))),
             saved |-> writeOk]

\* the value of savedFrom after a save of `history`
noteSave(history, writeOk, old) ==
    IF writeOk THEN [known |-> TRUE, pairs |-> pairs(history.list)] ELSE old

(***************************************************************************)
(* Initial states: the page before the script runs.                        *)
(***************************************************************************)
OldText(i) == CASE i % 3 = 0 -> <<"a">> [] i % 3 = 1 -> <<"b">> [] OTHER -> <<"c">>

\* a history of n messages as an earlier session saved it
StoredHistory(n) ==
    Array([i \in 1..n |-> Message(IF i % 2 = 1 THEN "bot" ELSE "user", OldText(i), "iso")])

\* what the slot may hold when the page loads: nothing, a snapshot of an earlier
\* session, or a value some other writer left there
InitStored ==
    {Absent, Unparseable, JsonNull}
    \cup {Snapshot(StoredHistory(n), Iso(MaxAgeDays - 1)) : n \in {0, 2, SnapshotLimit - 1}}
    \cup {Snapshot(StoredHistory(2), ts) : ts \in {Iso(MaxAgeDays), NoTimestamp, BadTimestamp}}
    \cup {Snapshot(m, Iso(0)) :
            m \in {NonArray("undefined"), NonArray("string"), Array(<<JunkOther>>),
                   Array(<<Message("bot", <<"a">>, "iso"), JunkNull>>)}}

\* the pages whose markup lacks an element
InitDoms == {AllElements} \cup {AllElements \ {e} : e \in {"toggle", "input", "emojiBtn"}}

NoSave == [known |-> FALSE, pairs |-> <<>>]

\* the fields the constructor sets before init, and the page's fresh elements
Fresh ==
    /\ listeners = {}
    /\ config = mergeConfig([apiEndpoint |-> FALSE, autoOpen |-> FALSE])
    /\ isOpen = FALSE
    /\ isTyping = FALSE
    /\ messageHistory = EmptyHistory
    /\ rendered = <<>>
    /\ inputValue = <<>>
    /\ sends = {}
    /\ timers = {}
    /\ log = <<>>
    /\ loaded = EmptyHistory

InitWidget ==
    /\ phase = "unloaded"
    /\ Fresh
    /\ \/ dom = AllElements /\ storage \in InitStored
       \/ dom \in InitDoms /\ storage = Absent
    /\ nSent = 0
    /\ savedFrom = NoSave

Init == InitWidget /\ probe = NoProbe

(***************************************************************************)
(* The constructor.                                                        *)
(***************************************************************************)
\* the phases in which the instance exists, its timers run and its listeners on
\* `document` are called: after the constructor returned, destroyed or not
Constructed == {"ready", "destroyed"}

AutoOpenTimer == [kind |-> "autoOpen", id |-> 0, content |-> <<>>]
DeliverTimer(id, content) == [kind |-> "deliver", id |-> id, content |-> content]

\* this.messageHistory.length === 0 (a string has a length, a number or an object none)
needsWelcome(history) == history.t = "array" /\ Len(history.list) = 0

\* init sets the timer whatever config.autoOpen is
autoOpenTimersAlways(options) == {AutoOpenTimer}

\* the timer init sets
autoOpenTimers(options) == IF options.autoOpen THEN {AutoOpenTimer} ELSE {}

\* new ReusableChatbot(options): the merge, then init
construct(options, readOk, writeOk) ==
    /\ phase = "unloaded"
    /\ LET b  == bindEvents(dom)
           ld == loadMessageHistory(storage, readOk)
           a  == addMessage(ld.history, ld.rendered, storage, "bot",
                            mergeConfig(options).welcomeMessage, writeOk)
       IN /\ config' = mergeConfig(options)
          /\ listeners' = b.listeners
          /\ IF b.threw
             THEN /\ phase' = "failed"
                  /\ UNCHANGED <<messageHistory, rendered, storage, timers, loaded, savedFrom>>
             ELSE /\ phase' = "ready"
                  /\ loaded' = ld.history
                  /\ timers' = autoOpenTimers(options)
                  /\ IF needsWelcome(ld.history)
                     THEN /\ messageHistory' = a.history
                          /\ rendered' = a.rendered
                          /\ storage' = a.storage
                          /\ savedFrom' = noteSave(a.history, writeOk, savedFrom)
                     ELSE /\ messageHistory' = ld.history
                          /\ rendered' = ld.rendered
                          /\ UNCHANGED <<storage, savedFrom>>
    /\ log' = <<>>
    /\ UNCHANGED <<dom, isOpen, isTyping, inputValue, sends, nSent, probe>>

(***************************************************************************)
(* The open/closed state.                                                  *)
(***************************************************************************)
\* openChat()
openChat ==
    /\ phase = "ready"
    /\ isOpen' = TRUE
    /\ log' = <<"chatbot_opened">>
    /\ UNCHANGED <<phase, dom, listeners, config, isTyping, messageHistory, rendered, inputValue,
                   storage, sends, timers, nSent, loaded, savedFrom, probe>>

\* closeChat(), also the click on the close button
closeChat ==
    /\ phase = "ready"
    /\ isOpen' = FALSE
    /\ log' = <<"chatbot_closed">>
    /\ UNCHANGED <<phase, dom, listeners, config, isTyping, messageHistory, rendered, inputValue,
                   storage, sends, timers, nSent, loaded, savedFrom, probe>>

\* toggleChat(), also the click on the toggle
toggleChat ==
    /\ phase = "ready"
    /\ isOpen' = ~isOpen
    /\ log' = IF isOpen THEN <<"chatbot_closed">> ELSE <<"chatbot_opened">>
    /\ UNCHANGED <<phase, dom, listeners, config, isTyping, messageHistory, rendered, inputValue,
                   storage, sends, timers, nSent, loaded, savedFrom, probe>>

\* Escape calls closeChat without looking at isOpen
escapeAlwaysCloses(key) ==
    /\ phase \in Constructed
    /\ "document.keydown" \in listeners
    /\ isOpen' = (IF key = "Escape" THEN FALSE ELSE ~isOpen)
    /\ log' = (IF key = "Escape" \/ isOpen THEN <<"chatbot_closed">> ELSE <<"chatbot_opened">>)
    /\ UNCHANGED <<phase, dom, listeners, config, isTyping, messageHistory, rendered, inputValue,
                   storage, sends, timers, nSent, loaded, savedFrom, probe>>

\* handleKeyboardShortcuts(e): Escape, or k with ctrl or meta
handleKeyboardShortcuts(key) ==
    /\ phase \in Constructed
    /\ "document.keydown" \in listeners
    /\ isOpen' = (IF key = "Escape" THEN FALSE ELSE ~isOpen)
    /\ log' = (IF key = "Escape"
               THEN (IF isOpen THEN <<"chatbot_closed">> ELSE <<>>)
               ELSE (IF isOpen THEN <<"chatbot_closed">> ELSE <<"chatbot_opened">>))
    /\ UNCHANGED <<phase, dom, listeners, config, isTyping, messageHistory, rendered, inputValue,
                   storage, sends, timers, nSent, loaded, savedFrom, probe>>

\* the setTimeout of init runs openChat
autoOpenFires ==
    /\ phase \in Constructed
    /\ AutoOpenTimer \in timers
    /\ timers' = timers \ {AutoOpenTimer}
    /\ isOpen' = TRUE
    /\ log' = <<"chatbot_opened">>
    /\ UNCHANGED <<phase, dom, listeners, config, isTyping, messageHistory, rendered, inputValue,
                   storage, sends, nSent, loaded, savedFrom, probe>>

(***************************************************************************)
(* Sending.                                                                *)
(***************************************************************************)
\* what the user types into the input field
TypedTexts == {<<" ">>, <<" ", "h", "i">>}

\* what the network does to a request of the widget
WidgetNets ==
    {NetReject,
     NetResponse(FALSE, "object", Str(<<"M">>), Undefined),
     NetResponse(TRUE, "error", Undefined, Undefined),
     NetResponse(TRUE, "object", Str(<<"M">>), Undefined),
     NetResponse(TRUE, "object", Undefined, Undefined)}

\* the `input` event: updateSendButton and autoResizeInput change no state of the model
inputChange(text) ==
    /\ phase = "ready"
    /\ "input.input.updateSendButton" \in listeners
    /\ inputValue' = text
    /\ log' = <<>>
    /\ UNCHANGED <<phase, dom, listeners, config, isOpen, isTyping, messageHistory, rendered,
                   storage, sends, timers, nSent, loaded, savedFrom, probe>>

\* toggleEmojiPicker(): one of the emojis is appended to the input
toggleEmojiPicker ==
    /\ phase = "ready"
    /\ "emojiBtn.click" \in listeners
    /\ Len(inputValue) < MaxInputLen
    /\ inputValue' = Append(inputValue, Emoji)
    /\ log' = <<>>
    /\ UNCHANGED <<phase, dom, listeners, config, isOpen, isTyping, messageHistory, rendered,
                   storage, sends, timers, nSent, loaded, savedFrom, probe>>

\* the body of the request of getBotResponse
requestBody(message, history) ==
    [message |-> message, history |-> sliceLast(history.list, RequestHistoryLimit)]

\* the text of the bot message for what getBotResponse did
replyText(r) == IF r.kind = "return" THEN r.val.text ELSE TroubleText

\* the value of the field without the trim
messageUntrimmed(value) == value

\* const message = this.elements.input.value.trim()
messageOf(value) == trim(value)

\* the sends explored: an empty one always, a non-empty one while fewer than cap were made
canSend(cap) == messageOf(inputValue) = <<>> \/ nSent < cap

\* sendMessage(): up to its await, and, when getBotResponse makes no request, on
\* through the continuation, which runs before any other handler
sendMessage(writeOk) ==
    /\ phase = "ready"
    /\ "sendBtn.click" \in listeners
    /\ LET message == messageOf(inputValue)
           a == addMessage(messageHistory, rendered, storage, "user", message, writeOk)
           id == nSent + 1
       IN IF message = <<>>
          THEN /\ log' = <<>>
               /\ UNCHANGED <<inputValue, messageHistory, rendered, storage, savedFrom, isTyping,
                              sends, timers, nSent>>
          ELSE /\ nSent' = id
               /\ inputValue' = <<>>
               /\ IF a.threw
                  THEN /\ log' = <<>>
                       /\ UNCHANGED <<messageHistory, rendered, storage, savedFrom, isTyping,
                                      sends, timers>>
                  ELSE /\ messageHistory' = a.history
                       /\ rendered' = a.rendered
                       /\ storage' = a.storage
                       /\ savedFrom' = noteSave(a.history, writeOk, savedFrom)
                       /\ IF config.apiEndpoint
                          THEN /\ isTyping' = TRUE
                               /\ sends' = sends \cup
                                     {[id |-> id, message |-> message,
                                       body |-> requestBody(message, a.history)]}
                               /\ log' = <<>>
                               /\ UNCHANGED timers
                          ELSE /\ isTyping' = FALSE
                               /\ timers' = timers \cup
                                     {DeliverTimer(id, replyText(getBotResponse(config, message, NetReject)))}
                               /\ log' = <<"message_sent">>
                               /\ UNCHANGED sends
    /\ UNCHANGED <<phase, dom, listeners, config, isOpen, loaded, probe>>

\* the request of a suspended send settles: the rest of getBotResponse, then the
\* rest of sendMessage
fetchSettles(s, net) ==
    /\ phase \in Constructed
    /\ s \in sends
    /\ sends' = sends \ {s}
    /\ isTyping' = FALSE
    /\ timers' = timers \cup
          {DeliverTimer(s.id, replyText(getBotResponse([config EXCEPT !.apiEndpoint = TRUE],
                                                       s.message, net)))}
    /\ log' = <<"message_sent">>
    /\ UNCHANGED <<phase, dom, listeners, config, isOpen, messageHistory, rendered, inputValue,
                   storage, nSent, loaded, savedFrom, probe>>

\* the reply of a send is dropped when its timer runs while the widget is closed
botReplyUnlessClosed(tm, writeOk) ==
    /\ phase \in Constructed
    /\ tm \in timers
    /\ tm.kind = "deliver"
    /\ timers' = timers \ {tm}
    /\ LET a == addMessage(messageHistory, rendered, storage, "bot", tm.content, writeOk)
       IN IF isOpen
          THEN /\ messageHistory' = a.history
               /\ rendered' = a.rendered
               /\ storage' = a.storage
               /\ savedFrom' = noteSave(a.history, writeOk, savedFrom)
          ELSE UNCHANGED <<messageHistory, rendered, storage, savedFrom>>
    /\ log' = <<>>
    /\ UNCHANGED <<phase, dom, listeners, config, isOpen, isTyping, inputValue, sends,
                   nSent, loaded, probe>>

\* the setTimeout of sendMessage runs addMessage('bot', response)
botReplyArrives(tm, writeOk) ==
    /\ phase \in Constructed
    /\ tm \in timers
    /\ tm.kind = "deliver"
    /\ timers' = timers \ {tm}
    /\ LET a == addMessage(messageHistory, rendered, storage, "bot", tm.content, writeOk)
       IN /\ messageHistory' = a.history
          /\ rendered' = a.rendered
          /\ storage' = a.storage
          /\ savedFrom' = IF a.threw THEN savedFrom ELSE noteSave(a.history, writeOk, savedFrom)
    /\ log' = <<>>
    /\ UNCHANGED <<phase, dom, listeners, config, isOpen, isTyping, inputValue, sends,
                   nSent, loaded, probe>>

(***************************************************************************)
(* Reset, configuration, teardown, and the world outside.                  *)
(***************************************************************************)
\* clearHistory without its addMessage
afterClearEmpty(store, welcome, w1, w2) ==
    [threw |-> FALSE, history |-> EmptyHistory,
     storage |-> saveMessageHistory(EmptyHistory, store, w1),
     rendered |-> <<>>, saved |-> w1]

\* clearHistory(): empty the history and the list, save, add the welcome message
afterClear(store, welcome, w1, w2) ==
    addMessage(EmptyHistory, <<>>, saveMessageHistory(EmptyHistory, store, w1),
               "bot", welcome, w2)

\* clearHistory()
clearHistory(w1, w2) ==
    /\ phase = "ready"
    /\ LET a == afterClear(storage, config.welcomeMessage, w1, w2)
       IN /\ messageHistory' = a.history
          /\ rendered' = a.rendered
          /\ storage' = a.storage
          /\ savedFrom' = noteSave(a.history, w2, noteSave(EmptyHistory, w1, savedFrom))
    /\ log' = <<>>
    /\ UNCHANGED <<phase, dom, listeners, config, isOpen, isTyping, inputValue, sends, timers,
                   nSent, loaded, probe>>

\* refreshChat(), the click on the refresh button
refreshChat(w1, w2) ==
    /\ phase = "ready"
    /\ "refreshBtn.click" \in listeners
    /\ LET a == afterClear(storage, config.welcomeMessage, w1, w2)
       IN /\ messageHistory' = a.history
          /\ rendered' = a.rendered
          /\ storage' = a.storage
          /\ savedFrom' = noteSave(a.history, w2, noteSave(EmptyHistory, w1, savedFrom))
    /\ log' = <<"chatbot_refreshed">>
    /\ UNCHANGED <<phase, dom, listeners, config, isOpen, isTyping, inputValue, sends, timers,
                   nSent, loaded, probe>>

\* updateConfig(newConfig): the shallow merge
updateConfig(u) ==
    /\ phase = "ready"
    /\ config' = [config EXCEPT !.apiEndpoint = (u = "endpointOn")]
    /\ config' # config
    /\ log' = <<>>
    /\ UNCHANGED <<phase, dom, listeners, isOpen, isTyping, messageHistory, rendered, inputValue,
                   storage, sends, timers, nSent, loaded, savedFrom, probe>>

\* destroy(): removeEventListener is given a function that was never added, so no
\* listener goes; the root element leaves the document, and with it the elements
\* the user could click or type into
destroy ==
    /\ phase = "ready"
    /\ phase' = "destroyed"
    /\ log' = <<>>
    /\ UNCHANGED <<dom, listeners, config, isOpen, isTyping, messageHistory, rendered,
                   inputValue, storage, sends, timers, nSent, loaded, savedFrom,
                   probe>>

\* the age of a timestamp d days later; from MaxAgeDays on every age reads the same
aged(timestamp, d) ==
    IF timestamp.t = "iso" /\ timestamp.age + d < MaxAgeDays
    THEN Iso(timestamp.age + d)
    ELSE IF timestamp.t = "iso" THEN Iso(MaxAgeDays) ELSE timestamp

\* time passes. Only loadMessageHistory reads the age of the snapshot, and it runs
\* in the constructor alone, so the clock is advanced between page loads
tick ==
    /\ phase = "unloaded"
    /\ storage.timestamp.t = "iso"
    /\ storage.timestamp.age < MaxAgeDays
    /\ storage' = [storage EXCEPT !.timestamp = aged(storage.timestamp, TickDays)]
    /\ UNCHANGED <<phase, dom, listeners, config, isOpen, isTyping, messageHistory, rendered,
                   inputValue, sends, timers, log, nSent, loaded, savedFrom,
                   probe>>

\* the page is left or reloaded: the instance, its timers and its pending requests
\* are gone, the storage slot stays
pageReload ==
    /\ phase \in {"ready", "failed", "destroyed"}
    /\ phase' = "unloaded"
    /\ listeners' = {}
    /\ config' = mergeConfig([apiEndpoint |-> FALSE, autoOpen |-> FALSE])
    /\ isOpen' = FALSE
    /\ isTyping' = FALSE
    /\ messageHistory' = EmptyHistory
    /\ rendered' = <<>>
    /\ inputValue' = <<>>
    /\ sends' = {}
    /\ timers' = {}
    /\ log' = <<>>
    /\ loaded' = EmptyHistory
    /\ UNCHANGED <<dom, storage, nSent, savedFrom, probe>>

Next ==
    \/ \E o \in Options, readOk \in BOOLEAN, writeOk \in BOOLEAN : construct(o, readOk, writeOk)
    \/ openChat
    \/ closeChat
    \/ toggleChat
    \/ \E key \in {"Escape", "ctrl+k"} : handleKeyboardShortcuts(key)
    \/ autoOpenFires
    \/ \E text \in TypedTexts : inputChange(text)
    \/ toggleEmojiPicker
    \/ \E writeOk \in BOOLEAN : canSend(MaxSends) /\ sendMessage(writeOk)
    \/ \E s \in sends, net \in WidgetNets : fetchSettles(s, net)
    \/ \E tm \in timers, writeOk \in BOOLEAN : botReplyArrives(tm, writeOk)
    \/ \E w1 \in BOOLEAN, w2 \in BOOLEAN : clearHistory(w1, w2)
    \/ \E w1 \in BOOLEAN, w2 \in BOOLEAN : refreshChat(w1, w2)
    \/ \E u \in ConfigUpdates : updateConfig(u)
    \/ destroy
    \/ tick
    \/ pageReload

Spec == Init /\ [][Next]_vars

\* getBotResponse on its own, on every input of Probes
InitResolve == InitWidget /\ dom = AllElements /\ storage = Absent /\ probe \in Probes

NextResolve == resolveProbe

SpecResolve == InitResolve /\ [][NextResolve]_vars

(***************************************************************************)
(* One instance on a complete page, with sends that overlap: the           *)
(* constructor, the open/closed state, typing, sending, and the callbacks  *)
(* of the requests and the timers.                                         *)
(***************************************************************************)
InitSends ==
    /\ InitWidget
    /\ dom = AllElements
    /\ storage \in {Absent, Snapshot(StoredHistory(2), Iso(MaxAgeDays - 1))}
    /\ probe = NoProbe

NextSends ==
    \/ \E o \in Options, writeOk \in BOOLEAN : construct(o, TRUE, writeOk)
    \/ openChat
    \/ closeChat
    \/ toggleChat
    \/ autoOpenFires
    \/ \E text \in TypedTexts : inputChange(text)
    \/ \E writeOk \in BOOLEAN : canSend(MaxOverlap) /\ sendMessage(writeOk)
    \/ \E s \in sends, net \in WidgetNets : fetchSettles(s, net)
    \/ \E tm \in timers, writeOk \in BOOLEAN : botReplyArrives(tm, writeOk)

\* a timer that is due runs, and a request resolves or rejects
FairSends ==
    /\ WF_vars(autoOpenFires)
    /\ WF_vars(\E s \in sends, net \in WidgetNets : fetchSettles(s, net))
    /\ WF_vars(\E tm \in timers, writeOk \in BOOLEAN : botReplyArrives(tm, writeOk))

SpecSends == InitSends /\ [][NextSends]_vars /\ FairSends

(***************************************************************************)
(* Properties of getBotResponse, under SpecResolve.                        *)
(***************************************************************************)
Settled == probe.out.kind # "pending"

\* the key is a case-insensitive substring of the text
matchesIgnoringCase(text, key) == includes(toLowerCase(text), toLowerCase(key))

\* the positions, in the order the map is written, of the keys other than
\* `default` that are case-insensitive substrings of the text
configuredMatches(responses, text) ==
    {i \in 1..Len(responses) :
        responses[i].key # DefaultKey /\ matchesIgnoringCase(text, responses[i].key)}

\* C1: without an endpoint, getBotResponse returns the reply of the first key in
\* configured order, other than `default`, that is a case-insensitive substring of
\* the input, whatever later keys match too.
C1_FirstConfiguredKeyWins ==
    (Settled /\ ~probe.cfg.apiEndpoint
       /\ configuredMatches(probe.cfg.responses, probe.message) # {})
    => probe.out = Return(Str(probe.cfg.responses[
                        Min(configuredMatches(probe.cfg.responses, probe.message))].reply))

\* C2: when no key other than `default` matches, getBotResponse returns the default
\* template with its placeholder replaced by the input exactly as typed.
C2_DefaultEchoesInputVerbatim ==
    (Settled /\ ~probe.cfg.apiEndpoint
       /\ configuredMatches(probe.cfg.responses, probe.message) = {})
    => probe.out = Return(Str(replaceLiteral(defaultOf(probe.cfg.responses).text,
                                             Placeholder, probe.message)))

RequestFailed == probe.net.outcome = "reject" \/ ~probe.net.ok

\* C3: with an endpoint, when the request fails with a network error or comes back
\* with a non-success status, getBotResponse does not throw and returns exactly the
\* non-empty string the keyword scan and default response give for the input.
C3_FailedRequestFallsBack ==
    (Settled /\ probe.cfg.apiEndpoint /\ RequestFailed)
    => /\ probe.out.kind = "return"
       /\ probe.out = localPolicy(probe.cfg.responses, probe.message)
       /\ probe.out.val.v = "string"
       /\ probe.out.val.text # <<>>

C3_Witness ==
    /\ Settled /\ probe.cfg.apiEndpoint
    /\ probe.net.outcome = "response" /\ ~probe.net.ok
    /\ probe.out.val.text = <<"R", "1">>

SuccessStatus == probe.net.outcome = "response" /\ probe.net.ok

IsString(x) == x.v = "string"

\* C4, as claimed: with an endpoint, a success status whose body is malformed or
\* holds neither a `message` nor a `response` string gives the reply of the local
\* keyword policy.
C4_AnyOtherShapeFallsBack ==
    (Settled /\ probe.cfg.apiEndpoint /\ SuccessStatus
       /\ (\/ probe.net.body.parse = "error"
           \/ ~IsString(probe.net.body.message) /\ ~IsString(probe.net.body.response)))
    => probe.out = localPolicy(probe.cfg.responses, probe.message)

\* C4, amended: with an endpoint and a success status, a body that is no JSON or is
\* JSON null gives the reply of the local keyword policy; a body that parses to any
\* other value with neither a truthy `message` nor a truthy `response` gives the
\* fixed "Sorry" string.
C4_MalformedFallsBackElseSorry ==
    (Settled /\ probe.cfg.apiEndpoint /\ SuccessStatus)
    => /\ probe.net.body.parse \in {"error", "null"}
            => probe.out = localPolicy(probe.cfg.responses, probe.message)
       /\ (probe.net.body.parse \in {"object", "primitive"}
             /\ ~Truthy(probe.net.body.message) /\ ~Truthy(probe.net.body.response))
            => probe.out = Return(Str(SorryText))

C4_Witness ==
    /\ Settled /\ probe.cfg.apiEndpoint /\ SuccessStatus
    /\ probe.net.body.parse = "object"
    /\ probe.net.body.message = Undefined /\ probe.net.body.response = Undefined
    /\ probe.message = <<"h", "i">>
    /\ probe.out = Return(Str(SorryText))

(***************************************************************************)
(* Properties of the widget, under Spec.                                   *)
(***************************************************************************)
\* the step is a run of the constructor that gets through init
Initializes == phase = "unloaded" /\ phase' = "ready"

\* the welcome message, as a {sender, content} pair
WelcomePair(cfg) == [sender |-> "bot", content |-> cfg.welcomeMessage]

\* the last min(SnapshotLimit, n) elements of a list of n
MostRecent(list) ==
    LET n == Len(list)
        k == IF n < SnapshotLimit THEN n ELSE SnapshotLimit
    IN SubSeq(list, n - k + 1, n)

\* C5: when the slot holds what saveMessageHistory wrote for a history of at most 50
\* messages, and loadMessageHistory reads it less than 7 days later, the history it
\* leaves has the same length and the same {sender, content} pairs in the same order.
C5_SaveThenLoadRoundTrip ==
    [][(/\ Initializes
        /\ \E o \in Options, w \in BOOLEAN : construct(o, TRUE, w)
        /\ savedFrom.known
        /\ Len(savedFrom.pairs) <= SnapshotLimit
        /\ storage.timestamp.age < MaxAgeDays)
       => /\ loaded'.t = "array"
          /\ Len(loaded'.list) = Len(savedFrom.pairs)
          /\ pairs(loaded'.list) = savedFrom.pairs]_vars

C5_Witness ==
    /\ phase = "ready"
    /\ savedFrom.known
    /\ Len(loaded.list) >= 2
    /\ pairs(loaded.list) = savedFrom.pairs
    /\ \E i \in 1..Len(loaded.list) :
          loaded.list[i].sender = "user" /\ loaded.list[i].content = <<"h", "i">>

\* the step runs addMessage on a history it can push to, and the write succeeds
AddsAndWrites ==
    \/ /\ Initializes
       /\ \E o \in Options, r \in BOOLEAN : construct(o, r, TRUE)
       /\ loaded' = EmptyHistory
    \/ sendMessage(TRUE) /\ trim(inputValue) # <<>> /\ messageHistory.t = "array"
    \/ \E tm \in timers : botReplyArrives(tm, TRUE) /\ messageHistory.t = "array"
    \/ \E w1 \in BOOLEAN : clearHistory(w1, TRUE) \/ refreshChat(w1, TRUE)

Resets == \E w1 \in BOOLEAN, w2 \in BOOLEAN : clearHistory(w1, w2) \/ refreshChat(w1, w2)

\* C6: after every addMessage whose storage write succeeds, the snapshot holds
\* exactly the last min(50, n) messages of the n-message history, in order, so never
\* more than 50, and the history in memory keeps all it had and gains the message.
C6_SnapshotHoldsMostRecent ==
    [][AddsAndWrites
       => /\ storage'.kind = "object"
          /\ storage'.messages.t = "array"
          /\ messageHistory'.t = "array"
          /\ Len(storage'.messages.list) <= SnapshotLimit
          /\ pairs(storage'.messages.list) = pairs(MostRecent(messageHistory'.list))
          /\ \/ Resets
             \/ /\ Len(messageHistory'.list) = Len(messageHistory.list) + 1
                /\ SubSeq(messageHistory'.list, 1, Len(messageHistory.list))
                      = messageHistory.list]_vars

C6_Witness ==
    /\ messageHistory.t = "array"
    /\ Len(messageHistory.list) > SnapshotLimit
    /\ storage.kind = "object"
    /\ storage.messages.t = "array"
    /\ Len(storage.messages.list) = SnapshotLimit
    /\ pairs(storage.messages.list) = pairs(MostRecent(messageHistory.list))

NoSnapshotOrStale(store) ==
    \/ store.kind = "absent"
    \/ store.kind = "object" /\ store.timestamp.t = "iso" /\ store.timestamp.age >= MaxAgeDays

\* C7: when init runs with no snapshot or one at least 7 days old, the loaded
\* history is empty and the history after init is exactly the welcome message; when
\* a non-empty snapshot is loaded, init adds nothing to it.
C7_WelcomeOnlyWithoutSnapshot ==
    [][Initializes
       => /\ NoSnapshotOrStale(storage)
             => /\ loaded' = EmptyHistory
                /\ messageHistory'.t = "array"
                /\ pairs(messageHistory'.list) = <<WelcomePair(config')>>
          /\ (loaded'.t = "array" /\ loaded'.list # <<>>)
             => messageHistory' = loaded']_vars

C7_Witness ==
    /\ phase = "ready"
    /\ storage = Snapshot(StoredHistory(2), Iso(MaxAgeDays))
    /\ loaded = EmptyHistory
    /\ pairs(messageHistory.list) = <<WelcomePair(config)>>

\* the stored value is no snapshot: text that does not parse, JSON without a list
\* of messages under `messages`, or JSON without a valid timestamp
Malformed(store) ==
    \/ store.kind \in {"unparseable", "null"}
    \/ /\ store.kind = "object"
       /\ \/ store.messages.t # "array"
          \/ \E i \in 1..Len(store.messages.list) : store.messages.list[i].et # "message"
          \/ store.timestamp.t # "iso"

\* C8: for every malformed stored value, loadMessageHistory leaves the history
\* empty, so that init goes on to the welcome message and the history after init is
\* a list that addMessage can push to.
C8_MalformedLoadsAsEmpty ==
    [][(Initializes /\ Malformed(storage))
       => /\ loaded' = EmptyHistory
          /\ messageHistory'.t = "array"
          /\ pairs(messageHistory'.list) = <<WelcomePair(config')>>]_vars

\* C9: sendMessage on an input that is empty or all whitespace changes neither the
\* history, the snapshot, the rendered list, the typing state nor the input field,
\* starts no request, schedules no reply and tracks no event.
C9_BlankSendChangesNothing ==
    [][((\E w \in BOOLEAN : sendMessage(w)) /\ trim(inputValue) = <<>>)
       => /\ log' = <<>>
          /\ UNCHANGED <<messageHistory, storage, rendered, isTyping, inputValue,
                         sends, timers>>]_vars

C9_Witness ==
    /\ phase = "ready"
    /\ "sendBtn.click" \in listeners
    /\ inputValue = <<" ">>
    /\ isOpen
    /\ log = <<>>

OnlyWelcomeInMemory ==
    /\ messageHistory'.t = "array"
    /\ pairs(messageHistory'.list) = <<WelcomePair(config)>>
    /\ rendered' = <<WelcomePair(config)>>

OnlyWelcomeStored ==
    /\ storage'.kind = "object"
    /\ storage'.messages.t = "array"
    /\ pairs(storage'.messages.list) = <<WelcomePair(config)>>

awaitsRequest(id) == \E s \in sends : s.id = id
awaitsTimer(id) == \E tm \in timers : tm.kind = "deliver" /\ tm.id = id
inFlight(id) == awaitsRequest(id) \/ awaitsTimer(id)

\* the last message of a list is the bot message with this text
endsWithReply(list, text) ==
    /\ list # <<>>
    /\ list[Len(list)].sender = "bot"
    /\ list[Len(list)].content = text

\* open, close and toggle leave every send in flight as it is
TogglingCancelsNothing ==
    (openChat \/ closeChat \/ toggleChat) => UNCHANGED <<sends, timers, messageHistory>>

\* a request that settles hands its send to a timer
SettledGetsTimer ==
    \A s \in sends : s \notin sends' => \E tm \in timers' \ timers : tm.kind = "deliver" /\ tm.id = s.id

\* a reply whose timer ran is the new last message of the history, open or closed
TimerAppendsReply ==
    \A tm \in timers :
        (tm.kind = "deliver" /\ tm \notin timers')
        => /\ Len(messageHistory'.list) = Len(messageHistory.list) + 1
           /\ SubSeq(messageHistory'.list, 1, Len(messageHistory.list)) = messageHistory.list
           /\ endsWithReply(messageHistory'.list, tm.content)

Constructs == phase = "unloaded" /\ phase' # "unloaded"

\* C12: when one of the elements init needs is absent, init aborts with an error
\* and leaves nothing set up: no listener attached, no history loaded or rendered,
\* no welcome message added or stored, no timer set.
C12_MissingElementLeavesNothing ==
    [][(Constructs /\ dom # AllElements)
       => /\ phase' = "failed"
          /\ listeners' = {}
          /\ loaded' = EmptyHistory
          /\ messageHistory' = EmptyHistory
          /\ rendered' = <<>>
          /\ storage' = storage
          /\ timers' = {}]_vars

\* C13: destroy detaches every listener attached at initialization, and after it
\* no key pressed (Escape, the modifier+K chord) changes the open/closed state or
\* the history.
C13_DestroyDetachesHandlers ==
    [][/\ destroy => listeners' = {}
       /\ (phase = "destroyed"
             /\ \E key \in {"Escape", "ctrl+k"} : handleKeyboardShortcuts(key))
          => UNCHANGED <<isOpen, messageHistory>>]_vars

(***************************************************************************)
(* Properties of the message lifecycle, under Spec.                        *)
(***************************************************************************)
\* the history and the rendered list gain this message and keep the rest
Appends(sender, content) ==
    /\ messageHistory'.t = "array"
    /\ messageHistory'.list = Append(messageHistory.list, Message(sender, content, "Date"))
    /\ rendered' = Append(rendered, [sender |-> sender, content |-> content])

\* the step leaves one new send in flight, numbered id
StartsSend(id) ==
    \/ \E s \in sends' \ sends : s.id = id
    \/ \E tm \in timers' \ timers : tm.kind = "deliver" /\ tm.id = id

\* C14: when the storage write of an addMessage fails, nothing is raised: the
\* message is appended to the history and rendered all the same, the snapshot stays
\* as it was, and a send goes on to its resolution and its reply.
C14_FailedWriteIsSwallowed ==
    [][/\ (sendMessage(FALSE) /\ trim(inputValue) # <<>> /\ messageHistory.t = "array")
          => /\ Appends("user", trim(inputValue))
             /\ storage' = storage
             /\ StartsSend(nSent')
       /\ \A tm \in timers :
             botReplyArrives(tm, FALSE)
             => Appends("bot", tm.content) /\ storage' = storage
       /\ (Initializes /\ loaded' = EmptyHistory
             /\ \E o \in Options, r \in BOOLEAN : construct(o, r, FALSE))
          => /\ messageHistory' = Array(<<Message("bot", config'.welcomeMessage, "Date")>>)
             /\ rendered' = <<WelcomePair(config')>>
             /\ storage' = storage]_vars

C14_Witness ==
    /\ phase = "ready"
    /\ storage = Absent
    /\ nSent = 1
    /\ ~inFlight(1)
    /\ pairs(messageHistory.list)
          = <<WelcomePair(config), [sender |-> "user", content |-> <<"h", "i">>],
              [sender |-> "bot", content |-> <<"R", "1">>]>>
    /\ rendered = pairs(messageHistory.list)

(***************************************************************************)
(* Properties of the open/closed state, under Spec.                        *)
(***************************************************************************)
\* the steps that are neither open, close, toggle nor a key, and make no instance
LeavesOpenStateAlone ==
    \/ \E w \in BOOLEAN : sendMessage(w)
    \/ \E s \in sends, net \in WidgetNets : fetchSettles(s, net)
    \/ \E tm \in timers, w \in BOOLEAN : botReplyArrives(tm, w)
    \/ Resets
    \/ \E u \in ConfigUpdates : updateConfig(u)
    \/ \E text \in TypedTexts : inputChange(text)
    \/ toggleEmojiPicker

C16_AutoOpenFiresOnce ==
    /\ [][/\ Initializes => ~isOpen'
          /\ \A o \in Options :
                (Initializes /\ \E r \in BOOLEAN, w \in BOOLEAN : construct(o, r, w))
                => (AutoOpenTimer \in timers') = o.autoOpen
          /\ (AutoOpenTimer \in timers' /\ AutoOpenTimer \notin timers) => Initializes
          /\ (AutoOpenTimer \in timers /\ AutoOpenTimer \notin timers')
             => autoOpenFires /\ isOpen' /\ log' = <<"chatbot_opened">>]_vars
    /\ (AutoOpenTimer \in timers) ~> (AutoOpenTimer \notin timers)

C16_Witness ==
    /\ phase = "ready"
    /\ loaded = StoredHistory(2)
    /\ messageHistory = loaded
    /\ AutoOpenTimer \notin timers
    /\ isOpen
    /\ log = <<"chatbot_opened">>
    /\ nSent = 0
    /\ inputValue = <<>>

(***************************************************************************)
(* Properties of sending, under Spec and SpecSends.                        *)
(***************************************************************************)
\* the step is a sendMessage on an input that does not trim to nothing
NonEmptySend == (\E w \in BOOLEAN : sendMessage(w)) /\ trim(inputValue) # <<>>

\* the deliver timers among a set of timers
replies(ts) == {tm \in ts : tm.kind = "deliver"}

\* the history gains no message of the bot
NoNewReply ==
    \/ messageHistory' = messageHistory
    \/ /\ messageHistory'.t = "array"
       /\ messageHistory.t = "array"
       /\ Len(messageHistory'.list) = Len(messageHistory.list) + 1
       /\ messageHistory'.list[Len(messageHistory'.list)].sender = "user"

\* C17: every non-empty send appends its user message and is then in flight, once;
\* its request, when it has one, settles into one timer without touching the
\* history; its timer appends one bot message; and while the instance lives a send
\* in flight is given up by no other step, and a bot message is appended by no
\* other step apart from init and reset.
C17_EachSendOneReply ==
    [][/\ NonEmptySend
          => /\ Appends("user", trim(inputValue))
             /\ StartsSend(nSent')
             /\ Cardinality(sends' \ sends) + Cardinality(replies(timers') \ replies(timers)) = 1
             /\ sends \subseteq sends' /\ replies(timers) \subseteq replies(timers')
       /\ (\E s \in sends : s \notin sends') /\ ~pageReload
          => /\ Cardinality(sends \ sends') = 1
             /\ SettledGetsTimer
             /\ Cardinality(replies(timers') \ replies(timers)) = 1
             /\ replies(timers) \subseteq replies(timers')
             /\ messageHistory' = messageHistory
       /\ (\E tm \in replies(timers) : tm \notin timers') /\ ~pageReload
          => /\ Cardinality(replies(timers) \ replies(timers')) = 1
             /\ TimerAppendsReply
             /\ UNCHANGED sends /\ replies(timers') \subseteq replies(timers)
       /\ (UNCHANGED <<sends, timers>> /\ ~Resets /\ ~Initializes /\ ~pageReload) => NoNewReply
       /\ \A id \in 1..nSent : ~(awaitsRequest(id) /\ awaitsTimer(id))]_vars

\* C18: in every state of a live instance the typing indicator is on exactly when
\* some send still awaits its resolution, also when sends overlap.
C18_TypingIffAwaiting ==
    phase \in Constructed => (isTyping <=> sends # {})

\* the last min(RequestHistoryLimit, n) elements of a list of n
LastForRequest(list) ==
    LET n == Len(list)
        k == IF n < RequestHistoryLimit THEN n ELSE RequestHistoryLimit
    IN SubSeq(list, n - k + 1, n)

\* C19: with an endpoint configured, every non-empty send issues exactly one
\* request; its body carries the text sent and the last min(10, n) entries of the
\* history as it is at the call, never more than 10, the last of them the user
\* message just sent; and no other step issues a request.
C19_OneRequestWithRecentHistory ==
    [][/\ (NonEmptySend /\ config.apiEndpoint)
          => /\ Cardinality(sends' \ sends) = 1
             /\ \A s \in sends' \ sends :
                   /\ s.body.message = trim(inputValue)
                   /\ messageHistory'.t = "array"
                   /\ s.body.history = LastForRequest(messageHistory'.list)
                   /\ Len(s.body.history) <= RequestHistoryLimit
                   /\ s.body.history # <<>>
                   /\ s.body.history[Len(s.body.history)]
                         = Message("user", trim(inputValue), "Date")
       /\ sends' \ sends # {} => NonEmptySend /\ config.apiEndpoint]_vars

\* the operations that are no reset and make no instance
OtherThanReset ==
    \/ \E w \in BOOLEAN : sendMessage(w)
    \/ \E s \in sends, net \in WidgetNets : fetchSettles(s, net)
    \/ \E tm \in timers, w \in BOOLEAN : botReplyArrives(tm, w)
    \/ openChat \/ closeChat \/ toggleChat \/ autoOpenFires
    \/ \E key \in {"Escape", "ctrl+k"} : handleKeyboardShortcuts(key)
    \/ \E u \in ConfigUpdates : updateConfig(u)
    \/ \E text \in TypedTexts : inputChange(text)
    \/ toggleEmojiPicker
    \/ destroy

\* the history before the step is a prefix of the history after it, sender by
\* sender and content by content
KeepsHistoryAsPrefix ==
    \/ messageHistory' = messageHistory
    \/ /\ messageHistory.t = "array" /\ messageHistory'.t = "array"
       /\ Len(messageHistory'.list) >= Len(messageHistory.list)
       /\ pairs(SubSeq(messageHistory'.list, 1, Len(messageHistory.list)))
             = pairs(messageHistory.list)

\* C20: every operation other than clearHistory and refreshChat (send, the delayed
\* bot reply, open, close, toggle, a key, updateConfig, the emoji button, typing)
\* leaves the history it found as a prefix of the history it leaves.
C20_HistoryIsAppendOnly ==
    [][OtherThanReset => KeepsHistoryAsPrefix]_vars

C20_Witness ==
    /\ phase = "ready"
    /\ loaded = StoredHistory(2)
    /\ nSent = 1
    /\ ~inFlight(1)
    /\ Len(messageHistory.list) = 4
    /\ SubSeq(messageHistory.list, 1, 2) = loaded.list
    /\ messageHistory.list[3].sender = "user"
    /\ messageHistory.list[4].sender = "bot"


\* the history is a list, the rendered list holds one element for each of its
\* entries, in the history's order, and the element of a message shows the
\* message's sender and content (an entry that is no message has neither)
RenderedMirrorsHistory ==
    /\ messageHistory.t = "array"
    /\ Len(rendered) = Len(messageHistory.list)
    /\ \A i \in 1..Len(rendered) :
          messageHistory.list[i].et = "message" =>
              /\ rendered[i].sender = messageHistory.list[i].sender
              /\ rendered[i].content = messageHistory.list[i].content

\* C21: once the constructor has returned without an error, after every handler
\* (the load of the snapshot, addMessage, a send, the delayed bot reply, a reset)
\* the rendered list corresponds one-to-one and in order to the history in memory.
C21_RenderedListMirrorsHistory ==
    phase \in Constructed => RenderedMirrorsHistory

====
